---- MODULE Spec2Model ----
(***************************************************************************)
(* Natural-language-to-safe-SQL pipeline of the sales chatbot:             *)
(* is_safe_select_sql, enforce_limit, process_sql_query                    *)
(* (llm_sql_openai.py), find_best_fallback (fallbacks.py) and              *)
(* process_user_question (chatbot_app.py); detect_chart_type (viz.py).      *)
(*                                                                         *)
(* A Python str is modelled as a sequence of one-character strings, so     *)
(* that strip, split/join, upper, startswith, `in`, re.search and re.sub   *)
(* are computed character by character as the interpreter computes them.   *)
(***************************************************************************)
EXTENDS Integers, Sequences, FiniteSets, TLC

VARIABLES
    pc,            \* the position of the call being followed
    question,      \* the user's question
    response,      \* the outcome of the language-model call
    sql,           \* the sql argument or local of the function being followed
    max_limit,     \* the max_limit argument of enforce_limit
    ret,           \* the value the followed function returned
    is_generated,  \* the flag process_sql_query returned
    executed,      \* the strings handed to query_df, in order
    df,            \* the DataFrame handed to detect_chart_type
    db             \* the resource cache of init_db and the sessions using it

vars == <<pc, question, response, sql, max_limit, ret, is_generated, executed, df, db>>

----------------------------------------------------------------------------
(* Bounds *)

\* number of fragments an input string is assembled from
MaxAtoms == 5

\* number of fragments a model response is assembled from
MaxResponseAtoms == 3

\* number of fragments a question is assembled from
MaxQuestionAtoms == 2

\* number of fragments a question given to find_best_fallback alone is
\* assembled from
MaxFallbackAtoms == 3

\* number of columns of a DataFrame
MaxCols == 3

\* number of rows of a DataFrame
MaxRows == 11

\* number of sessions of the process
MaxSessions == 2

\* number of fragments the content of a model message is assembled from
MaxContentAtoms == 3

\* the value of a local or argument that has not been assigned
None == "None"

\* the model call has not been made
NoOutcome == [kind |-> "none", content |-> <<>>]

\* no DataFrame has been built
NoTable == [columns |-> <<>>, rows |-> 0]

\* no session has started
NoDb == [cache |-> <<>>, lock |-> {}, reads |-> 0, cons |-> <<>>, sess |-> <<>>]

----------------------------------------------------------------------------
(* Characters *)

LowerLetters ==
    <<"a","b","c","d","e","f","g","h","i","j","k","l","m",
      "n","o","p","q","r","s","t","u","v","w","x","y","z">>

UpperLetters ==
    <<"A","B","C","D","E","F","G","H","I","J","K","L","M",
      "N","O","P","Q","R","S","T","U","V","W","X","Y","Z">>

Digits == <<"0","1","2","3","4","5","6","7","8","9">>

Range(f) == { f[i] : i \in DOMAIN f }

LowerSet == Range(LowerLetters)

UpperSet == Range(UpperLetters)

DigitSet == Range(Digits)

\* str.lower() on one character
LowerChar ==
    [c \in UpperSet |->
        LowerLetters[CHOOSE i \in 1..26 : UpperLetters[i] = c]]

\* str.upper() on one character
UpperChar ==
    [c \in LowerSet |->
        UpperLetters[CHOOSE i \in 1..26 : LowerLetters[i] = c]]

\* the characters str.strip(), str.split() and \s treat as whitespace
IsSpace(c) == c \in {" ", "\n", "\t", "\r"}

\* \d
IsDigit(c) == c \in DigitSet

\* \w, the characters on either side of which \b does not fire
IsWord(c) == c \in LowerSet \cup UpperSet \cup DigitSet \cup {"_"}

----------------------------------------------------------------------------
(* str methods *)

upper(s) == [i \in 1..Len(s) |-> IF s[i] \in LowerSet THEN UpperChar[s[i]] ELSE s[i]]

lower(s) == [i \in 1..Len(s) |-> IF s[i] \in UpperSet THEN LowerChar[s[i]] ELSE s[i]]

RECURSIVE lstrip(_)
lstrip(s) ==
    IF s # <<>> /\ IsSpace(Head(s)) THEN lstrip(Tail(s)) ELSE s

RECURSIVE rstrip(_)
rstrip(s) ==
    IF s # <<>> /\ IsSpace(s[Len(s)]) THEN rstrip(SubSeq(s, 1, Len(s) - 1)) ELSE s

strip(s) == rstrip(lstrip(s))

startswith(s, p) == Len(s) >= Len(p) /\ SubSeq(s, 1, Len(p)) = p

endswith(s, p) == Len(s) >= Len(p) /\ SubSeq(s, Len(s) - Len(p) + 1, Len(s)) = p

\* p in s
contains(s, p) == \E i \in 1..(Len(s) - Len(p) + 1) : SubSeq(s, i, i + Len(p) - 1) = p

\* ' '.join(s.split()): whitespace runs collapse to one space, none at the ends.
\* Every character of a whitespace run but its first is dropped, the first
\* becomes a space, and the runs at the two ends are dropped whole.
join_split(s) ==
    LET Dropped == "dropped"
        marked  == [i \in 1..Len(s) |->
                       IF ~IsSpace(s[i]) THEN s[i]
                       ELSE IF /\ i > 1
                               /\ ~IsSpace(s[i - 1])
                               /\ \E k \in (i + 1)..Len(s) : ~IsSpace(s[k])
                            THEN " "
                            ELSE Dropped]
        Kept(c) == c # Dropped
    IN  SelectSeq(marked, Kept)

----------------------------------------------------------------------------
(* int() and str() on non-negative integers *)

DigitValue(c) == (CHOOSE i \in 1..10 : Digits[i] = c) - 1

\* int(match.group(1)): Python integers are unbounded, so the value is kept as
\* its decimal numeral without leading zeros
RECURSIVE int(_)
int(ds) ==
    IF Len(ds) > 1 /\ Head(ds) = "0" THEN int(Tail(ds)) ELSE ds

\* the decimal text an f-string writes for a non-negative integer
RECURSIVE str(_)
str(n) ==
    IF n < 10 THEN <<Digits[n + 1]>>
    ELSE str(n \div 10) \o <<Digits[(n % 10) + 1]>>

\* existing_limit > max_limit, for the numeral n and the integer m
greater(n, m) ==
    LET d == str(m) IN
    \/ Len(n) > Len(d)
    \/ /\ Len(n) = Len(d)
       /\ \E i \in 1..Len(n) :
             /\ DigitValue(n[i]) > DigitValue(d[i])
             /\ SubSeq(n, 1, i - 1) = SubSeq(d, 1, i - 1)

----------------------------------------------------------------------------
(* is_safe_select_sql *)

dangerous_keywords ==
    << <<"I","N","S","E","R","T">>,
       <<"U","P","D","A","T","E">>,
       <<"D","E","L","E","T","E">>,
       <<"D","R","O","P">>,
       <<"A","L","T","E","R">>,
       <<"C","R","E","A","T","E">>,
       <<"R","E","P","L","A","C","E">>,
       <<"T","R","U","N","C","A","T","E">>,
       <<"A","T","T","A","C","H">>,
       <<"C","O","P","Y">>,
       <<"P","R","A","G","M","A">> >>

SELECT == <<"S","E","L","E","C","T">>

\* ' '.join(sql.strip().split()).upper()
normalize(s) == upper(join_split(strip(s)))

\* keyword in normalized_sql, without the padding spaces
keyword_found_substring(keyword, normalized_sql) == contains(normalized_sql, keyword)

\* f' {keyword} ' in f' {normalized_sql} '
keyword_found(keyword, normalized_sql) ==
    contains(<<" ">> \o normalized_sql \o <<" ">>, <<" ">> \o keyword \o <<" ">>)

\* the prefix test made with 'SELECT ' instead of 'SELECT'
is_safe_select_sql_space(s) ==
    IF strip(s) = <<>> THEN FALSE
    ELSE LET normalized_sql == normalize(s) IN
         IF ~startswith(normalized_sql, SELECT \o <<" ">>) THEN FALSE
         ELSE ~\E k \in DOMAIN dangerous_keywords :
                  keyword_found(dangerous_keywords[k], normalized_sql)

is_safe_select_sql(s) ==
    IF strip(s) = <<>> THEN FALSE
    ELSE LET normalized_sql == normalize(s) IN
         IF ~startswith(normalized_sql, SELECT) THEN FALSE
         ELSE ~\E k \in DOMAIN dangerous_keywords :
                  keyword_found(dangerous_keywords[k], normalized_sql)

----------------------------------------------------------------------------
(* enforce_limit *)

LIMIT == <<"L","I","M","I","T">>

\* \s+ from i: the last index of the whitespace run starting at i (i - 1 if none)
RECURSIVE SpaceRunEnd(_, _)
SpaceRunEnd(s, i) ==
    IF i <= Len(s) /\ IsSpace(s[i]) THEN SpaceRunEnd(s, i + 1) ELSE i - 1

\* \d+ from i: the last index of the digit run starting at i (i - 1 if none)
RECURSIVE DigitRunEnd(_, _)
DigitRunEnd(s, i) ==
    IF i <= Len(s) /\ IsDigit(s[i]) THEN DigitRunEnd(s, i + 1) ELSE i - 1

\* r'\bLIMIT\s+(\d+)\b' with re.IGNORECASE, anchored at i:
\* the index of the last character matched, 0 when there is no match at i
limit_pattern(s, i) ==
    IF /\ i + 4 <= Len(s)
       /\ upper(SubSeq(s, i, i + 4)) = LIMIT
       /\ (i = 1 \/ ~IsWord(s[i - 1]))
    THEN LET w == SpaceRunEnd(s, i + 5)
             d == DigitRunEnd(s, w + 1)
         IN  IF /\ w >= i + 5
                /\ d >= w + 1
                /\ (d = Len(s) \/ ~IsWord(s[d + 1]))
             THEN d ELSE 0
    ELSE 0

\* re.search: the start of the leftmost match at or after i, 0 when there is none
RECURSIVE search(_, _)
search(s, i) ==
    IF i > Len(s) THEN 0
    ELSE IF limit_pattern(s, i) # 0 THEN i
    ELSE search(s, i + 1)

\* match.group(1) of the match starting at i
group1(s, i) ==
    LET d == limit_pattern(s, i) IN
    SubSeq(s, SpaceRunEnd(s, i + 5) + 1, d)

\* re.sub(limit_pattern, repl, sql, flags=re.IGNORECASE) scanning from i
RECURSIVE sub(_, _, _)
sub(repl, s, i) ==
    IF i > Len(s) THEN <<>>
    ELSE IF limit_pattern(s, i) # 0
         THEN repl \o sub(repl, s, limit_pattern(s, i) + 1)
         ELSE <<s[i]>> \o sub(repl, s, i + 1)

\* the trailing semicolon removed without the second strip()
strip_semicolon_once(s) ==
    LET t == strip(s) IN
    IF endswith(t, <<";">>) THEN SubSeq(t, 1, Len(t) - 1) ELSE t

\* sql.strip(), then the removal of one trailing semicolon
strip_semicolon(s) ==
    LET t == strip(s) IN
    IF endswith(t, <<";">>) THEN strip(SubSeq(t, 1, Len(t) - 1)) ELSE t

\* the clause rewritten whenever one is found, whatever its value
limit_clause_always(t, m) ==
    LET match == search(t, 1) IN
    IF match # 0
    THEN sub(LIMIT \o <<" ">> \o str(m), t, 1)
    ELSE t \o <<" ">> \o LIMIT \o <<" ">> \o str(m)

\* the lines between the removal of the semicolon and its re-addition
limit_clause(t, m) ==
    LET match == search(t, 1) IN
    IF match # 0
    THEN IF greater(int(group1(t, match)), m)
         THEN sub(LIMIT \o <<" ">> \o str(m), t, 1)
         ELSE t
    ELSE t \o <<" ">> \o LIMIT \o <<" ">> \o str(m)

enforce_limit(s, m) == limit_clause(strip_semicolon(s), m) \o <<";">>

----------------------------------------------------------------------------
(* fallbacks.py.  A character outside ASCII, and the grave accent, is       *)
(* written as its code point, "U+6708" for the character of that number;   *)
(* it is one character.                                                    *)

\* the entries of FALLBACKS in declaration order
FALLBACKS ==
    << [ name |-> <<"U+6708","U+6BCE","U+306E","U+30AB","U+30C6","U+30B4","U+30EA","U+30FC","U+5225","U+306E","U+58F2","U+308A","U+4E0A","U+3052">>,
         sql |->
           << "\n"," "," "," "," "," "," "," "," ","S","E","L","E","C",
              "T"," ","m","o","n","t","h",","," ","c","a","t","e","g",
              "o","r","y",","," ","S","U","M","(","r","e","v","e","n",
              "u","e",")"," ","A","S"," ","t","o","t","a","l","_","r",
              "e","v","e","n","u","e","\n"," "," "," "," "," "," "," ",
              " ","F","R","O","M"," ","s","a","l","e","s","\n"," "," ",
              " "," "," "," "," "," ","G","R","O","U","P"," ","B","Y",
              " ","1",",","2","\n"," "," "," "," "," "," "," "," ","O",
              "R","D","E","R"," ","B","Y"," ","1",",","2","\n"," "," ",
              " "," "," "," "," "," ","L","I","M","I","T"," ","1","0",
              "0","0",";","\n"," "," "," "," " >> ],
       [ name |-> <<"U+30C1","U+30E3","U+30CD","U+30EB","U+3054","U+3068","U+306E","U+58F2","U+308A","U+4E0A","U+3052">>,
         sql |->
           << "\n"," "," "," "," "," "," "," "," ","S","E","L","E","C",
              "T"," ","s","a","l","e","s","_","c","h","a","n","n","e",
              "l",","," ","S","U","M","(","r","e","v","e","n","u","e",
              ")"," ","A","S"," ","t","o","t","a","l","_","r","e","v",
              "e","n","u","e","\n"," "," "," "," "," "," "," "," ","F",
              "R","O","M"," ","s","a","l","e","s","\n"," "," "," "," ",
              " "," "," "," ","G","R","O","U","P"," ","B","Y"," ","1",
              "\n"," "," "," "," "," "," "," "," ","O","R","D","E","R",
              " ","B","Y"," ","1","\n"," "," "," "," "," "," "," "," ",
              "L","I","M","I","T"," ","1","0","0","0",";","\n"," "," ",
              " "," " >> ],
       [ name |-> <<"U+5730","U+57DF","U+3054","U+3068","U+306E","U+58F2","U+308A","U+4E0A","U+3052","U+306E","U+5408","U+8A08">>,
         sql |->
           << "\n"," "," "," "," "," "," "," "," ","S","E","L","E","C",
              "T"," ","r","e","g","i","o","n",","," ","S","U","M","(",
              "r","e","v","e","n","u","e",")"," ","A","S"," ","t","o",
              "t","a","l","_","r","e","v","e","n","u","e","\n"," "," ",
              " "," "," "," "," "," ","F","R","O","M"," ","s","a","l",
              "e","s","\n"," "," "," "," "," "," "," "," ","G","R","O",
              "U","P"," ","B","Y"," ","1","\n"," "," "," "," "," "," ",
              " "," ","O","R","D","E","R"," ","B","Y"," ","1","\n"," ",
              " "," "," "," "," "," "," ","L","I","M","I","T"," ","1",
              "0","0","0",";","\n"," "," "," "," " >> ],
       [ name |-> <<"U+30AB","U+30C6","U+30B4","U+30EA","U+5225","U+58F2","U+4E0A">>,
         sql |->
           << "\n"," "," "," "," "," "," "," "," ","S","E","L","E","C",
              "T"," ","c","a","t","e","g","o","r","y",","," ","S","U",
              "M","(","r","e","v","e","n","u","e",")"," ","A","S"," ",
              "t","o","t","a","l","_","r","e","v","e","n","u","e",",",
              " ","S","U","M","(","u","n","i","t","s",")"," ","A","S",
              " ","t","o","t","a","l","_","u","n","i","t","s","\n"," ",
              " "," "," "," "," "," "," ","F","R","O","M"," ","s","a",
              "l","e","s","\n"," "," "," "," "," "," "," "," ","G","R",
              "O","U","P"," ","B","Y"," ","1","\n"," "," "," "," "," ",
              " "," "," ","O","R","D","E","R"," ","B","Y"," ","t","o",
              "t","a","l","_","r","e","v","e","n","u","e"," ","D","E",
              "S","C","\n"," "," "," "," "," "," "," "," ","L","I","M",
              "I","T"," ","1","0","0","0",";","\n"," "," "," "," " >> ],
       [ name |-> <<"U+6708","U+5225","U+58F2","U+4E0A">>,
         sql |->
           << "\n"," "," "," "," "," "," "," "," ","S","E","L","E","C",
              "T"," ","m","o","n","t","h",","," ","S","U","M","(","r",
              "e","v","e","n","u","e",")"," ","A","S"," ","t","o","t",
              "a","l","_","r","e","v","e","n","u","e",","," ","S","U",
              "M","(","u","n","i","t","s",")"," ","A","S"," ","t","o",
              "t","a","l","_","u","n","i","t","s","\n"," "," "," "," ",
              " "," "," "," ","F","R","O","M"," ","s","a","l","e","s",
              "\n"," "," "," "," "," "," "," "," ","G","R","O","U","P",
              " ","B","Y"," ","1","\n"," "," "," "," "," "," "," "," ",
              "O","R","D","E","R"," ","B","Y"," ","1","\n"," "," "," ",
              " "," "," "," "," ","L","I","M","I","T"," ","1","0","0",
              "0",";","\n"," "," "," "," " >> ],
       [ name |-> <<"U+9867","U+5BA2","U+30BB","U+30B0","U+30E1","U+30F3","U+30C8","U+5225","U+58F2","U+4E0A">>,
         sql |->
           << "\n"," "," "," "," "," "," "," "," ","S","E","L","E","C",
              "T"," ","c","u","s","t","o","m","e","r","_","s","e","g",
              "m","e","n","t",","," ","S","U","M","(","r","e","v","e",
              "n","u","e",")"," ","A","S"," ","t","o","t","a","l","_",
              "r","e","v","e","n","u","e","\n"," "," "," "," "," "," ",
              " "," ","F","R","O","M"," ","s","a","l","e","s","\n"," ",
              " "," "," "," "," "," "," ","G","R","O","U","P"," ","B",
              "Y"," ","1","\n"," "," "," "," "," "," "," "," ","O","R",
              "D","E","R"," ","B","Y"," ","t","o","t","a","l","_","r",
              "e","v","e","n","u","e"," ","D","E","S","C","\n"," "," ",
              " "," "," "," "," "," ","L","I","M","I","T"," ","1","0",
              "0","0",";","\n"," "," "," "," " >> ],
       [ name |-> <<"U+5168","U+4F53","U+96C6","U+8A08">>,
         sql |->
           << "\n"," "," "," "," "," "," "," "," ","S","E","L","E","C",
              "T"," ","\n"," "," "," "," "," "," "," "," "," "," "," ",
              " ","C","O","U","N","T","(","*",")"," ","A","S"," ","t",
              "o","t","a","l","_","t","r","a","n","s","a","c","t","i",
              "o","n","s",",","\n"," "," "," "," "," "," "," "," "," ",
              " "," "," ","S","U","M","(","r","e","v","e","n","u","e",
              ")"," ","A","S"," ","t","o","t","a","l","_","r","e","v",
              "e","n","u","e",",","\n"," "," "," "," "," "," "," "," ",
              " "," "," "," ","S","U","M","(","u","n","i","t","s",")",
              " ","A","S"," ","t","o","t","a","l","_","u","n","i","t",
              "s",",","\n"," "," "," "," "," "," "," "," "," "," "," ",
              " ","A","V","G","(","u","n","i","t","_","p","r","i","c",
              "e",")"," ","A","S"," ","a","v","g","_","u","n","i","t",
              "_","p","r","i","c","e",",","\n"," "," "," "," "," "," ",
              " "," "," "," "," "," ","A","V","G","(","r","e","v","e",
              "n","u","e",")"," ","A","S"," ","a","v","g","_","t","r",
              "a","n","s","a","c","t","i","o","n","_","v","a","l","u",
              "e","\n"," "," "," "," "," "," "," "," ","F","R","O","M",
              " ","s","a","l","e","s","\n"," "," "," "," "," "," "," ",
              " ","L","I","M","I","T"," ","1","0","0","0",";","\n"," ",
              " "," "," " >> ] >>

\* the entries of FALLBACK_KEYWORDS in declaration order
FALLBACK_KEYWORDS ==
    << [ name |-> <<"U+6708","U+6BCE","U+306E","U+30AB","U+30C6","U+30B4","U+30EA","U+30FC","U+5225","U+306E","U+58F2","U+308A","U+4E0A","U+3052">>,
         keywords |->
           << <<"U+6708">>,
              <<"m","o","n","t","h">>,
              <<"U+30AB","U+30C6","U+30B4","U+30EA">>,
              <<"c","a","t","e","g","o","r","y">>,
              <<"U+6708","U+5225">>,
              <<"U+6708","U+3054","U+3068">>,
              <<"U+30AB","U+30C6","U+30B4","U+30EA","U+5225">>,
              <<"U+30AB","U+30C6","U+30B4","U+30EA","U+30FC","U+5225">> >> ],
       [ name |-> <<"U+30C1","U+30E3","U+30CD","U+30EB","U+3054","U+3068","U+306E","U+58F2","U+308A","U+4E0A","U+3052">>,
         keywords |->
           << <<"U+30C1","U+30E3","U+30CD","U+30EB">>,
              <<"c","h","a","n","n","e","l">>,
              <<"U+8CA9","U+58F2","U+30C1","U+30E3","U+30CD","U+30EB">>,
              <<"s","a","l","e","s","_","c","h","a","n","n","e","l">>,
              <<"o","n","l","i","n","e">>,
              <<"s","t","o","r","e">>,
              <<"U+30AA","U+30F3","U+30E9","U+30A4","U+30F3">>,
              <<"U+5E97","U+8217">> >> ],
       [ name |-> <<"U+5730","U+57DF","U+3054","U+3068","U+306E","U+58F2","U+308A","U+4E0A","U+3052","U+306E","U+5408","U+8A08">>,
         keywords |->
           << <<"U+5730","U+57DF">>,
              <<"r","e","g","i","o","n">>,
              <<"U+5730","U+57DF","U+5225">>,
              <<"n","o","r","t","h">>,
              <<"s","o","u","t","h">>,
              <<"e","a","s","t">>,
              <<"w","e","s","t">>,
              <<"U+5317">>,
              <<"U+5357">>,
              <<"U+6771">>,
              <<"U+897F">> >> ],
       [ name |-> <<"U+30AB","U+30C6","U+30B4","U+30EA","U+5225","U+58F2","U+4E0A">>,
         keywords |->
           << <<"U+30AB","U+30C6","U+30B4","U+30EA">>,
              <<"c","a","t","e","g","o","r","y">>,
              <<"U+5546","U+54C1">>,
              <<"U+88FD","U+54C1">>,
              <<"e","l","e","c","t","r","o","n","i","c","s">>,
              <<"c","l","o","t","h","i","n","g">>,
              <<"g","r","o","c","e","r","i","e","s">> >> ],
       [ name |-> <<"U+6708","U+5225","U+58F2","U+4E0A">>,
         keywords |->
           << <<"U+6708">>,
              <<"m","o","n","t","h">>,
              <<"U+6708","U+5225">>,
              <<"U+6708","U+3054","U+3068">>,
              <<"U+6642","U+9593">>,
              <<"U+671F","U+9593">>,
              <<"U+63A8","U+79FB">> >> ],
       [ name |-> <<"U+9867","U+5BA2","U+30BB","U+30B0","U+30E1","U+30F3","U+30C8","U+5225","U+58F2","U+4E0A">>,
         keywords |->
           << <<"U+9867","U+5BA2">>,
              <<"c","u","s","t","o","m","e","r">>,
              <<"U+30BB","U+30B0","U+30E1","U+30F3","U+30C8">>,
              <<"s","e","g","m","e","n","t">>,
              <<"c","o","n","s","u","m","e","r">>,
              <<"c","o","r","p","o","r","a","t","e">>,
              <<"b","u","s","i","n","e","s","s">> >> ],
       [ name |-> <<"U+5168","U+4F53","U+96C6","U+8A08">>,
         keywords |->
           << <<"U+5168","U+4F53">>,
              <<"t","o","t","a","l">>,
              <<"U+5408","U+8A08">>,
              <<"U+30B5","U+30DE","U+30EA","U+30FC">>,
              <<"s","u","m","m","a","r","y">>,
              <<"U+6982","U+8981">>,
              <<"U+7D71","U+8A08">> >> ] >>


\* the number of keywords of the list that occur in question_lower (lines 116-119)
matches(keywords, question_lower) ==
    Cardinality({ k \in DOMAIN keywords : contains(question_lower, lower(keywords[k])) })

\* the loop with >= for > at line 121: the last entry reaching the maximum wins
RECURSIVE best_match_from_last(_, _, _, _)
best_match_from_last(i, question_lower, best_match, max_matches) ==
    IF i > Len(FALLBACK_KEYWORDS) THEN <<best_match, max_matches>>
    ELSE LET n == matches(FALLBACK_KEYWORDS[i].keywords, question_lower) IN
         IF n >= max_matches
         THEN best_match_from_last(i + 1, question_lower, FALLBACK_KEYWORDS[i].name, n)
         ELSE best_match_from_last(i + 1, question_lower, best_match, max_matches)

\* the loop of lines 112-123 from entry i on, with the locals accumulated so far
RECURSIVE best_match_from(_, _, _, _)
best_match_from(i, question_lower, best_match, max_matches) ==
    IF i > Len(FALLBACK_KEYWORDS) THEN <<best_match, max_matches>>
    ELSE LET n == matches(FALLBACK_KEYWORDS[i].keywords, question_lower) IN
         IF n > max_matches
         THEN best_match_from(i + 1, question_lower, FALLBACK_KEYWORDS[i].name, n)
         ELSE best_match_from(i + 1, question_lower, best_match, max_matches)

\* best_match = None: no catalog key is the empty string
NoMatch == <<>>

\* the key of the general summary, "全体集計"
DefaultFallback == <<"U+5168","U+4F53","U+96C6","U+8A08">>

\* FALLBACKS[name]
fallback_sql(name) ==
    FALLBACKS[CHOOSE i \in DOMAIN FALLBACKS : FALLBACKS[i].name = name].sql

\* find_best_fallback returning the general summary's SQL under every name
find_best_fallback_default_sql(q) ==
    LET r == best_match_from(1, lower(q), NoMatch, 0)
        best_match == IF r[1] = NoMatch \/ r[2] = 0 THEN DefaultFallback ELSE r[1]
    IN  <<best_match, strip(fallback_sql(DefaultFallback))>>

\* find_best_fallback defaulting to the first catalog entry at line 127
find_best_fallback_first_default(q) ==
    LET r == best_match_from(1, lower(q), NoMatch, 0)
        best_match == IF r[1] = NoMatch \/ r[2] = 0 THEN FALLBACKS[1].name ELSE r[1]
    IN  <<best_match, strip(fallback_sql(best_match))>>

\* the pair (fallback_name, fallback_sql)
find_best_fallback(q) ==
    LET r == best_match_from(1, lower(q), NoMatch, 0)
        best_match == IF r[1] = NoMatch \/ r[2] = 0 THEN DefaultFallback ELSE r[1]
    IN  <<best_match, strip(fallback_sql(best_match))>>

\* is_fallback_question with the question not lower-cased
is_fallback_question_cased(q) ==
    \E i \in DOMAIN FALLBACK_KEYWORDS :
        \E k \in DOMAIN FALLBACK_KEYWORDS[i].keywords :
            contains(q, lower(FALLBACK_KEYWORDS[i].keywords[k]))

\* lines 152-159: some keyword of some entry occurs in the lower-cased question
is_fallback_question(q) ==
    LET question_lower == lower(q) IN
    \E i \in DOMAIN FALLBACK_KEYWORDS :
        \E k \in DOMAIN FALLBACK_KEYWORDS[i].keywords :
            contains(question_lower, lower(FALLBACK_KEYWORDS[i].keywords[k]))

----------------------------------------------------------------------------
(* Input strings *)

\* the fragments candidate SQL strings are assembled from
Atoms ==
    << SELECT,
       <<"d","r","o","p">>,
       <<" ">>,
       <<";">>,
       <<"x">>,
       <<"L","I","M","I","T"," ","5","0">>,
       <<"l","i","m","i","t","\n","5","0","0","0">>,
       <<"\n">> >>

RECURSIVE Flatten(_, _)
Flatten(atoms, f) ==
    IF f = <<>> THEN <<>> ELSE atoms[Head(f)] \o Flatten(atoms, Tail(f))

\* every string made of at most n fragments
Strings(atoms, n) ==
    { Flatten(atoms, f) : f \in UNION { [1..k -> DOMAIN atoms] : k \in 0..n } }

Inputs == Strings(Atoms, MaxAtoms)

\* the values of max_limit: one below both limits the fragments carry, and the default
Limits == {20, 1000}

----------------------------------------------------------------------------
(* is_safe_select_sql applied to every input *)

InitSafe ==
    /\ pc = "call"
    /\ sql \in Inputs
    /\ question = <<>>
    /\ response = NoOutcome
    /\ max_limit = None
    /\ ret = None
    /\ is_generated = None
    /\ executed = <<>>
    /\ df = NoTable
    /\ db = NoDb

CallIsSafe ==
    /\ pc = "call"
    /\ ret' = is_safe_select_sql(sql)
    /\ pc' = "is_safe_select_sql"
    /\ UNCHANGED <<question, response, sql, max_limit, is_generated, executed, df, db>>

NextSafe == CallIsSafe

SpecSafe == InitSafe /\ [][NextSafe]_vars

----------------------------------------------------------------------------
(* enforce_limit applied to every input and bound *)

InitLimit ==
    /\ pc = "call"
    /\ sql \in Inputs
    /\ max_limit \in Limits
    /\ question = <<>>
    /\ response = NoOutcome
    /\ ret = None
    /\ is_generated = None
    /\ executed = <<>>
    /\ df = NoTable
    /\ db = NoDb

CallEnforceLimit ==
    /\ pc = "call"
    /\ ret' = enforce_limit(sql, max_limit)
    /\ pc' = "enforce_limit"
    /\ UNCHANGED <<question, response, sql, max_limit, is_generated, executed, df, db>>

NextLimit == CallEnforceLimit

SpecLimit == InitLimit /\ [][NextLimit]_vars

----------------------------------------------------------------------------
(* generate_sql and process_sql_query *)

\* the code-fence marker, three characters U+0060
Fence == <<"U+0060","U+0060","U+0060">>

FenceSql == Fence \o <<"s","q","l">>

\* the indexes of the line breaks of s
LineBreaks(s) == { i \in DOMAIN s : s[i] = "\n" }

Min(S) == CHOOSE x \in S : \A y \in S : x <= y

Max(S) == CHOOSE x \in S : \A y \in S : x >= y

\* '\n'.join(sql.split('\n')[1:-1]): s without its first and its last line
middle_lines(s) ==
    IF Cardinality(LineBreaks(s)) < 2 THEN <<>>
    ELSE SubSeq(s, Min(LineBreaks(s)) + 1, Max(LineBreaks(s)) - 1)

\* lines 68-78: what generate_sql returns for the content of the model's message
generate_sql(content) ==
    LET s == strip(content) IN
    IF startswith(s, Fence) /\ endswith(s, Fence) THEN strip(middle_lines(s))
    ELSE IF startswith(s, FenceSql) /\ endswith(s, Fence) THEN strip(middle_lines(s))
    ELSE strip(s)

\* the max_limit default of enforce_limit
DefaultMaxLimit == 1000

\* the safety check left out
process_sql_query_unchecked(outcome) ==
    IF outcome.kind \in {"no_client", "api_error"} THEN << <<>>, FALSE >>
    ELSE << enforce_limit(generate_sql(outcome.content), DefaultMaxLimit), TRUE >>

\* the pair (sql, is_generated) process_sql_query returns for an outcome of the
\* model call: no client, an exception in the call, or the message content
process_sql_query(outcome) ==
    IF outcome.kind \in {"no_client", "api_error"} THEN << <<>>, FALSE >>
    ELSE LET generated == generate_sql(outcome.content) IN
         IF ~is_safe_select_sql(generated) THEN << <<>>, FALSE >>
         ELSE << enforce_limit(generated, DefaultMaxLimit), TRUE >>

----------------------------------------------------------------------------
(* process_user_question *)

\* the fragments model responses are assembled from
ResponseAtoms ==
    << SELECT,
       <<" ","d","r","o","p">>,
       <<";">>,
       <<"x">>,
       <<" ","L","I","M","I","T"," ","5","0","0","0">>,
       Fence,
       <<"\n">> >>

Responses == Strings(ResponseAtoms, MaxResponseAtoms)

\* the outcomes of the model call: no credential (get_openai_client returns
\* None), an exception or timeout in the call, or a message with a content
Outcomes ==
    { [kind |-> k, content |-> <<>>] : k \in {"no_client", "api_error"} }
    \cup { [kind |-> "content", content |-> c] : c \in Responses }

\* the fragments questions are assembled from
QuestionAtoms ==
    << <<"U+6708">>,
       <<"R","e","g","i","o","n">>,
       <<"z">> >>

Questions == Strings(QuestionAtoms, MaxQuestionAtoms)

Init ==
    /\ pc = "start"
    /\ question \in Questions
    /\ response = NoOutcome
    /\ sql = <<>>
    /\ max_limit = DefaultMaxLimit
    /\ ret = None
    /\ is_generated = None
    /\ executed = <<>>
    /\ df = NoTable
    /\ db = NoDb

\* line 187: sql, is_generated = process_sql_query(question)
ProcessSqlQuery ==
    /\ pc = "start"
    /\ \E outcome \in Outcomes :
          /\ response' = outcome
          /\ sql' = process_sql_query(outcome)[1]
          /\ is_generated' = process_sql_query(outcome)[2]
    /\ pc' = "generated"
    /\ UNCHANGED <<question, max_limit, ret, executed, df, db>>

\* the generated text kept whatever the flag says
ChooseQueryNoFallback ==
    /\ pc = "generated"
    /\ pc' = "chosen"
    /\ UNCHANGED <<question, response, sql, max_limit, ret, is_generated, executed, df, db>>

\* lines 191-196: the fallback replaces a failed generation
ChooseQuery ==
    /\ pc = "generated"
    /\ sql' = IF ~is_generated \/ strip(sql) = <<>>
              THEN find_best_fallback(question)[2]
              ELSE sql
    /\ pc' = "chosen"
    /\ UNCHANGED <<question, response, max_limit, ret, is_generated, executed, df, db>>

\* lines 203-210: query_df runs sql; it returns an empty frame when the query
\* fails or selects nothing, and an empty frame ends the request
ExecuteQuery ==
    /\ pc = "chosen"
    /\ executed' = Append(executed, sql)
    /\ \E result_df \in {"rows", "empty"} :
          /\ ret' = result_df
          /\ pc' = IF result_df = "empty" THEN "done" ELSE "display"
    /\ UNCHANGED <<question, response, sql, max_limit, is_generated, df, db>>

\* lines 212-220: the table, the chart and the insights are rendered
Display ==
    /\ pc = "display"
    /\ pc' = "done"
    /\ UNCHANGED <<question, response, sql, max_limit, ret, is_generated, executed, df, db>>

\* line 222: rendering raised
DisplayRaises ==
    /\ pc = "display"
    /\ pc' = "except"
    /\ UNCHANGED <<question, response, sql, max_limit, ret, is_generated, executed, df, db>>

\* the last resort attempted again when its query returns nothing
LastResortFallbackRetried ==
    /\ pc = "except"
    /\ executed' = Append(executed, find_best_fallback(question)[2])
    /\ \E result_df \in {"rows", "empty"} :
          /\ ret' = result_df
          /\ pc' = IF result_df = "empty" THEN "except" ELSE "done"
    /\ UNCHANGED <<question, response, sql, max_limit, is_generated, df, db>>

\* lines 225-241: the fallback is run once as a last resort
LastResortFallback ==
    /\ pc = "except"
    /\ executed' = Append(executed, find_best_fallback(question)[2])
    /\ \E result_df \in {"rows", "empty"} : ret' = result_df
    /\ pc' = "done"
    /\ UNCHANGED <<question, response, sql, max_limit, is_generated, df, db>>

Next ==
    \/ ProcessSqlQuery
    \/ ChooseQuery
    \/ ExecuteQuery
    \/ Display
    \/ DisplayRaises
    \/ LastResortFallback

Spec == Init /\ [][Next]_vars

----------------------------------------------------------------------------
(* find_best_fallback applied to every question *)

\* the fragments questions are assembled from: keywords of every catalog
\* entry, one with capitals, one shared by two entries, and one of no entry
FallbackAtoms ==
    << <<"U+6708">>,
       <<"U+5225">>,
       <<"U+30AB","U+30C6","U+30B4","U+30EA">>,
       <<"R","e","g","i","o","n">>,
       <<"c","h","a","n","n","e","l">>,
       <<"U+5546","U+54C1">>,
       <<"U+63A8","U+79FB">>,
       <<"U+9867","U+5BA2">>,
       <<"U+5408","U+8A08">>,
       <<"z">> >>

\* the question of test_fallback_system, "月ごとのカテゴリ別売上を見せて"
TestQuestion ==
    <<"U+6708","U+3054","U+3068","U+306E","U+30AB","U+30C6","U+30B4","U+30EA","U+5225","U+58F2","U+4E0A","U+3092","U+898B","U+305B","U+3066">>

FallbackQuestions == Strings(FallbackAtoms, MaxFallbackAtoms) \cup {TestQuestion}

InitFallback ==
    /\ pc = "call"
    /\ question \in FallbackQuestions
    /\ response = NoOutcome
    /\ sql = <<>>
    /\ max_limit = None
    /\ ret = None
    /\ is_generated = None
    /\ executed = <<>>
    /\ df = NoTable
    /\ db = NoDb

CallFindBestFallback ==
    /\ pc = "call"
    /\ ret' = find_best_fallback(question)
    /\ pc' = "find_best_fallback"
    /\ UNCHANGED <<question, response, sql, max_limit, is_generated, executed, df, db>>

CallIsFallbackQuestion ==
    /\ pc = "call"
    /\ ret' = is_fallback_question(question)
    /\ pc' = "is_fallback_question"
    /\ UNCHANGED <<question, response, sql, max_limit, is_generated, executed, df, db>>

NextFallback ==
    \/ CallFindBestFallback
    \/ CallIsFallbackQuestion

SpecFallback == InitFallback /\ [][NextFallback]_vars

----------------------------------------------------------------------------
(* viz.py: detect_chart_type *)

\* A DataFrame is modelled by what detect_chart_type reads of it: its columns
\* in order, each with its label and dtype, and the length of its index.

\* df.empty: an axis of length 0
empty_never(d) == FALSE

empty(d) == Len(d.columns) = 0 \/ d.rows = 0

\* df.select_dtypes(include=...).columns.tolist()
select_dtypes(d, include) ==
    LET kept == SelectSeq(d.columns, LAMBDA c : c.dtype \in include)
    IN  [i \in DOMAIN kept |-> kept[i].name]

\* the dtypes select_dtypes takes for 'number'
number == {"int64", "float64"}

\* df[col].dtype
dtype_of_column(d, col) == d.columns[CHOOSE i \in DOMAIN d.columns : d.columns[i].name = col].dtype

month == <<"m","o","n","t","h">>
date == <<"d","a","t","e">>

\* lines 30-33
time_cols_of(d, categorical_cols) ==
    SelectSeq(categorical_cols,
              LAMBDA col : \/ lower(col) \in {month, date}
                           \/ dtype_of_column(d, col) = "datetime64[ns]")

\* len(categorical_cols) == 1 and len(df) <= 10
single_category_few_items_lt(categorical_cols, d) ==
    Len(categorical_cols) = 1 /\ d.rows < 10

single_category_few_items(categorical_cols, d) ==
    Len(categorical_cols) = 1 /\ d.rows <= 10

\* len(numeric_cols) >= 2
two_numeric_columns_gt(numeric_cols) == Len(numeric_cols) > 2

two_numeric_columns(numeric_cols) == Len(numeric_cols) >= 2

detect_chart_type(d) ==
    IF empty(d) THEN "none"
    ELSE
    LET numeric_cols == select_dtypes(d, number)
        all_categorical_cols == select_dtypes(d, {"object", "category"})
        time_cols == time_cols_of(d, all_categorical_cols)
        categorical_cols ==
            SelectSeq(all_categorical_cols,
                      LAMBDA col : \A i \in DOMAIN time_cols : time_cols[i] # col)
    IN  IF Len(numeric_cols) >= 1
        THEN IF Len(time_cols) >= 1 THEN "line"
             ELSE IF Len(categorical_cols) >= 1
             THEN IF single_category_few_items(categorical_cols, d)
                  THEN "pie"
                  ELSE "bar"
             ELSE IF two_numeric_columns(numeric_cols) THEN "scatter"
             ELSE "bar"
        ELSE "bar"

\* the column labels and dtypes tables are built from
ColumnNames == { month, <<"D","a","t","e">>, <<"r","e","g","i","o","n">>, <<"r","e","v","e","n","u","e">> }
DTypes == {"int64", "object", "category", "datetime64[ns]", "bool"}
Columns == [name : ColumnNames, dtype : DTypes]

\* column lists with distinct labels, as DuckDB's fetchdf produces
ColumnLists ==
    UNION { { c \in [1..k -> Columns] :
                \A i, j \in 1..k : c[i].name = c[j].name => i = j } : k \in 0..MaxCols }

DataFrames == [columns : ColumnLists, rows : 0..MaxRows]

InitChart ==
    /\ pc = "call"
    /\ df \in DataFrames
    /\ db = NoDb
    /\ question = <<>>
    /\ response = NoOutcome
    /\ sql = <<>>
    /\ max_limit = None
    /\ ret = None
    /\ is_generated = None
    /\ executed = <<>>

CallDetectChartType ==
    /\ pc = "call"
    /\ ret' = detect_chart_type(df)
    /\ pc' = "detect_chart_type"
    /\ UNCHANGED <<question, response, sql, max_limit, is_generated, executed, df, db>>

NextChart == CallDetectChartType

SpecChart == InitChart /\ [][NextChart]_vars

----------------------------------------------------------------------------
(* viz.py: the chart builders, auto_chart and display_data_with_chart *)

\* A figure is modelled by the chart kind and the columns plotly express was
\* given: x (names for a pie), y (values for a pie) and color, a list
\* holding the color column, empty where color is None or not passed.
NoFigure == [kind |-> "None", x |-> <<>>, y |-> <<>>, color |-> <<>>]

\* a call of st.<call>; about is the chart kind the text or figure names
St(call, about) == [st |-> call, about |-> about]

\* what a builder hands back: its return value and the st calls it made
Built(fig) == [fig |-> fig, events |-> <<>>]

\* the except branch of a builder: st.warning(...) and return None
Failed(kind) == [fig |-> NoFigure, events |-> <<St("warning", kind)>>]

\* lines 67-91; px_raises: plotly express raised in the call
create_bar_chart(d, px_raises) ==
    LET numeric_cols == select_dtypes(d, number)
        categorical_cols == select_dtypes(d, {"object", "category"})
    IN  IF Len(numeric_cols) = 0 \/ Len(categorical_cols) = 0 THEN Built(NoFigure)
        ELSE IF px_raises THEN Failed("bar")
        ELSE Built([kind |-> "bar",
                    x |-> categorical_cols[1],
                    y |-> numeric_cols[1],
                    color |-> IF Len(categorical_cols) > 1
                              THEN <<categorical_cols[2]>> ELSE <<>>])

\* lines 109-113: the first column of the list named month or date, in a
\* list that is empty when there is none (time_col = None)
find_time_col_exact(categorical_cols) ==
    LET named == SelectSeq(categorical_cols, LAMBDA col : col \in {month, date})
    IN  IF Len(named) = 0 THEN <<>> ELSE <<named[1]>>

find_time_col(categorical_cols) ==
    LET named == SelectSeq(categorical_cols, LAMBDA col : lower(col) \in {month, date})
    IN  IF Len(named) = 0 THEN <<>> ELSE <<named[1]>>

\* lines 104-140
create_line_chart(d, px_raises) ==
    LET numeric_cols == select_dtypes(d, number)
        categorical_cols == select_dtypes(d, {"object", "category"})
        time_col == find_time_col(categorical_cols)
    IN  IF Len(time_col) = 0 \/ Len(numeric_cols) = 0 THEN Built(NoFigure)
        ELSE LET other_cats == SelectSeq(categorical_cols, LAMBDA col : col # time_col[1])
             IN  IF px_raises THEN Failed("line")
                 ELSE Built([kind |-> "line",
                             x |-> time_col[1],
                             y |-> numeric_cols[1],
                             color |-> IF Len(other_cats) > 0
                                       THEN <<other_cats[1]>> ELSE <<>>])

\* lines 153-170
create_pie_chart(d, px_raises) ==
    LET numeric_cols == select_dtypes(d, number)
        categorical_cols == select_dtypes(d, {"object", "category"})
    IN  IF Len(numeric_cols) = 0 \/ Len(categorical_cols) = 0 THEN Built(NoFigure)
        ELSE IF px_raises THEN Failed("pie")
        ELSE Built([kind |-> "pie",
                    x |-> categorical_cols[1],
                    y |-> numeric_cols[1],
                    color |-> <<>>])

\* lines 183-207
create_scatter_plot(d, px_raises) ==
    LET numeric_cols == select_dtypes(d, number)
        categorical_cols == select_dtypes(d, {"object", "category"})
    IN  IF Len(numeric_cols) < 2 THEN Built(NoFigure)
        ELSE IF px_raises THEN Failed("scatter")
        ELSE Built([kind |-> "scatter",
                    x |-> numeric_cols[1],
                    y |-> numeric_cols[2],
                    color |-> IF Len(categorical_cols) > 0
                              THEN <<categorical_cols[1]>> ELSE <<>>])

\* lines 231-238: the builder of the detected kind
create_chart(chart_type, d, px_raises) ==
    IF chart_type = "bar" THEN create_bar_chart(d, px_raises)
    ELSE IF chart_type = "line" THEN create_line_chart(d, px_raises)
    ELSE IF chart_type = "pie" THEN create_pie_chart(d, px_raises)
    ELSE IF chart_type = "scatter" THEN create_scatter_plot(d, px_raises)
    ELSE Built(NoFigure)

\* what auto_chart and display_data_with_chart did: the kind detected (None
\* before detection), the figure built and the st calls made, in order
Shown(chart_type, fig, events) ==
    [chart_type |-> chart_type, fig |-> fig, events |-> events]

\* auto_chart saying nothing when no figure was built
auto_chart_silent(d, px_raises) ==
    IF empty(d) THEN Shown(None, NoFigure, <<St("warning", "No data to visualize.")>>)
    ELSE LET chart_type == detect_chart_type(d) IN
         IF chart_type = "none"
         THEN Shown(chart_type, NoFigure, <<St("info", "No suitable chart type")>>)
         ELSE LET built == create_chart(chart_type, d, px_raises) IN
              IF built.fig # NoFigure
              THEN Shown(chart_type, built.fig,
                         built.events \o <<St("plotly_chart", built.fig.kind)>>)
              ELSE Shown(chart_type, built.fig, built.events)

\* lines 217-244
auto_chart(d, px_raises) ==
    IF empty(d) THEN Shown(None, NoFigure, <<St("warning", "No data to visualize.")>>)
    ELSE LET chart_type == detect_chart_type(d) IN
         IF chart_type = "none"
         THEN Shown(chart_type, NoFigure, <<St("info", "No suitable chart type")>>)
         ELSE LET built == create_chart(chart_type, d, px_raises) IN
              IF built.fig # NoFigure
              THEN Shown(chart_type, built.fig,
                         built.events \o <<St("plotly_chart", built.fig.kind)>>)
              ELSE Shown(chart_type, built.fig,
                         built.events \o <<St("info", chart_type)>>)

\* lines 255-266
display_data_with_chart(d, px_raises) ==
    IF empty(d) THEN Shown(None, NoFigure, <<St("warning", "No data to display.")>>)
    ELSE LET table == <<St("subheader", "title"), St("dataframe", "df")>> IN
         IF d.rows > 0
         THEN LET chart == auto_chart(d, px_raises) IN
              Shown(chart.chart_type, chart.fig,
                    table \o <<St("subheader", "Visualization")>> \o chart.events)
         ELSE Shown(None, NoFigure, table)

CallCreateLineChart ==
    /\ pc = "call"
    /\ \E px_raises \in BOOLEAN : ret' = create_line_chart(df, px_raises)
    /\ pc' = "create_line_chart"
    /\ UNCHANGED <<question, response, sql, max_limit, is_generated, executed, df, db>>

CallDisplayDataWithChart ==
    /\ pc = "call"
    /\ \E px_raises \in BOOLEAN : ret' = display_data_with_chart(df, px_raises)
    /\ pc' = "display_data_with_chart"
    /\ UNCHANGED <<question, response, sql, max_limit, is_generated, executed, df, db>>

NextViz ==
    \/ CallCreateLineChart
    \/ CallDisplayDataWithChart

SpecViz == InitChart /\ [][NextViz]_vars

----------------------------------------------------------------------------
(* db.py: init_db under st.cache_resource, called by setup_database of     *)
(* concurrent sessions.  Each session runs its script in a thread of its   *)
(* own.  The decorator keeps one value per argument list for the process:  *)
(* a call looks the value up; on a miss it takes the lock of that entry,   *)
(* looks the value up again, and only on a second miss runs the function   *)
(* and stores what it returns, None included, before releasing the lock.   *)

Sessions == 1..MaxSessions

\* Python None, and the DuckDB connection created k-th in the process
NoneValue == [kind |-> "None", id |-> 0]
Connection(k) == [kind |-> "con", id |-> k]

\* a session: its position, st.session_state.db_connection, the value its
\* call of init_db is returning, and the local con of init_db
NewSession == [pc |-> "idle", db_connection |-> NoneValue,
               result |-> NoneValue, con |-> 0]

InitDb ==
    /\ pc = "sessions"
    /\ db = [cache |-> <<>>, lock |-> {}, reads |-> 0, cons |-> <<>>,
             sess |-> [s \in Sessions |-> NewSession]]
    /\ df = NoTable
    /\ question = <<>>
    /\ response = NoOutcome
    /\ sql = <<>>
    /\ max_limit = None
    /\ ret = None
    /\ is_generated = None
    /\ executed = <<>>

At(s, p) == pc = "sessions" /\ db.sess[s].pc = p

Others == <<pc, question, response, sql, max_limit, ret, is_generated, executed, df>>

\* chatbot_app.py lines 29-31: init_db is called when the session holds no
\* connection
SetupDatabase(s) ==
    /\ At(s, "idle")
    /\ db' = [db EXCEPT !.sess[s].pc =
                 IF db.sess[s].db_connection = NoneValue THEN "cache_read" ELSE "done"]
    /\ UNCHANGED Others

\* init_db with the decorator left out: every call runs the function
CacheReadUncached(s) ==
    /\ At(s, "cache_read")
    /\ db' = [db EXCEPT !.sess[s].pc = "read_csv"]
    /\ UNCHANGED Others

\* the decorator's first lookup
CacheRead(s) ==
    /\ At(s, "cache_read")
    /\ db' = IF db.cache # <<>>
             THEN [db EXCEPT !.sess[s].result = db.cache[1], !.sess[s].pc = "assign"]
             ELSE [db EXCEPT !.sess[s].pc = "acquire"]
    /\ UNCHANGED Others

\* the lock of the entry is taken when it is free
Acquire(s) ==
    /\ At(s, "acquire")
    /\ db.lock = {}
    /\ db' = [db EXCEPT !.lock = {s}, !.sess[s].pc = "cache_reread"]
    /\ UNCHANGED Others

\* the second lookup, holding the lock
CacheReread(s) ==
    /\ At(s, "cache_reread")
    /\ db' = IF db.cache # <<>>
             THEN [db EXCEPT !.sess[s].result = db.cache[1], !.lock = {},
                             !.sess[s].pc = "assign"]
             ELSE [db EXCEPT !.sess[s].pc = "read_csv"]
    /\ UNCHANGED Others

\* db.py line 20: pd.read_csv; lines 33-35 when it raises
ReadCsv(s) ==
    /\ At(s, "read_csv")
    /\ \E ok \in BOOLEAN :
          db' = IF ok
                THEN [db EXCEPT !.reads = @ + 1, !.sess[s].pc = "connect"]
                ELSE [db EXCEPT !.reads = @ + 1, !.sess[s].result = NoneValue,
                                !.sess[s].pc = "store"]
    /\ UNCHANGED Others

\* db.py line 23: duckdb.connect
Connect(s) ==
    /\ At(s, "connect")
    /\ db' = [db EXCEPT !.cons = Append(@, "connected"),
                        !.sess[s].con = Len(db.cons) + 1,
                        !.sess[s].pc = "create_table"]
    /\ UNCHANGED Others

\* db.py lines 26-31: the month column and CREATE TABLE sales, then return
\* con; lines 33-35 when one of them raises
CreateTable(s) ==
    /\ At(s, "create_table")
    /\ \E ok \in BOOLEAN :
          db' = IF ok
                THEN [db EXCEPT !.cons[db.sess[s].con] = "ready",
                                !.sess[s].result = Connection(db.sess[s].con),
                                !.sess[s].pc = "store"]
                ELSE [db EXCEPT !.sess[s].result = NoneValue,
                                !.sess[s].pc = "store"]
    /\ UNCHANGED Others

\* the decorator stores the value returned and releases the lock
Store(s) ==
    /\ At(s, "store")
    /\ db' = [db EXCEPT !.cache = <<db.sess[s].result>>,
                        !.lock = @ \ {s},
                        !.sess[s].pc = "assign"]
    /\ UNCHANGED Others

\* chatbot_app.py line 31: st.session_state.db_connection = init_db()
Assign(s) ==
    /\ At(s, "assign")
    /\ db' = [db EXCEPT !.sess[s].db_connection = db.sess[s].result,
                        !.sess[s].pc = "done"]
    /\ UNCHANGED Others

\* the script of the session runs again (chatbot_app.py line 348)
Rerun(s) ==
    /\ At(s, "done")
    /\ db' = [db EXCEPT !.sess[s].pc = "idle"]
    /\ UNCHANGED Others

NextDb ==
    \E s \in Sessions :
        \/ SetupDatabase(s)
        \/ CacheRead(s)
        \/ Acquire(s)
        \/ CacheReread(s)
        \/ ReadCsv(s)
        \/ Connect(s)
        \/ CreateTable(s)
        \/ Store(s)
        \/ Assign(s)
        \/ Rerun(s)

SpecDb == InitDb /\ [][NextDb]_vars

----------------------------------------------------------------------------
(* generate_sql applied to every message content *)

\* the fragments message contents are assembled from: a fence, an opening
\* fence with the language tag on a line of its own, a closing fence on a
\* line of its own, and SQL text
ContentAtoms ==
    << Fence,
       FenceSql \o <<"\n">>,
       <<"\n">> \o Fence,
       <<" ">>,
       SELECT,
       <<"x">>,
       <<"\n">> >>

Contents == Strings(ContentAtoms, MaxContentAtoms)

InitGenerate ==
    /\ pc = "call"
    /\ response \in { [kind |-> "content", content |-> c] : c \in Contents }
    /\ question = <<>>
    /\ sql = <<>>
    /\ max_limit = None
    /\ ret = None
    /\ is_generated = None
    /\ executed = <<>>
    /\ df = NoTable
    /\ db = NoDb

\* lines 68-78 on response.choices[0].message.content
CallGenerateSql ==
    /\ pc = "call"
    /\ ret' = generate_sql(response.content)
    /\ pc' = "generate_sql"
    /\ UNCHANGED <<question, response, sql, max_limit, is_generated, executed, df, db>>

NextGenerate == CallGenerateSql

SpecGenerate == InitGenerate /\ [][NextGenerate]_vars

----------------------------------------------------------------------------
(* Notions the properties are stated with *)

\* the keyword kw occupies s[i .. i + Len(kw) - 1], in any case
OccursAt(kw, s, i) ==
    /\ i >= 1
    /\ i + Len(kw) - 1 <= Len(s)
    /\ upper(SubSeq(s, i, i + Len(kw) - 1)) = kw

\* an occurrence delimited on both sides by the end of the text or by a
\* character that cannot be part of an identifier
StandaloneAt(kw, s, i) ==
    /\ OccursAt(kw, s, i)
    /\ (i = 1 \/ ~IsWord(s[i - 1]))
    /\ (i + Len(kw) - 1 = Len(s) \/ ~IsWord(s[i + Len(kw)]))

HasStandaloneKeyword(s) ==
    \E k \in DOMAIN dangerous_keywords :
        \E i \in 1..Len(s) : StandaloneAt(dangerous_keywords[k], s, i)

HasKeyword(s) ==
    \E k \in DOMAIN dangerous_keywords :
        \E i \in 1..Len(s) : OccursAt(dangerous_keywords[k], s, i)

\* the first token of the trimmed, collapsed, upper-cased text: its leading
\* run of identifier characters
RECURSIVE FirstToken(_)
FirstToken(s) ==
    IF s # <<>> /\ IsWord(Head(s)) THEN <<Head(s)>> \o FirstToken(Tail(s)) ELSE <<>>

AllSpace(s) == \A i \in DOMAIN s : IsSpace(s[i])

\* b is s without its surrounding whitespace and without one trailing ';'
\* (and the whitespace before it)
IsBodyOf(b, s) ==
    \E i \in 1..(Len(s) + 1) :
        LET j    == i + Len(b) - 1
            rest == SubSeq(s, j + 1, Len(s))
        IN  /\ j <= Len(s)
            /\ SubSeq(s, i, j) = b
            /\ AllSpace(SubSeq(s, 1, i - 1))
            /\ b # <<>> => ~IsSpace(b[1]) /\ ~IsSpace(b[Len(b)])
            /\ \/ AllSpace(rest) /\ (b # <<>> => b[Len(b)] # ";")
               \/ \E k \in DOMAIN rest :
                     /\ rest[k] = ";"
                     /\ \A l \in DOMAIN rest : l # k => IsSpace(rest[l])

\* the starts of the LIMIT <integer> clauses of s, as re.finditer reports them
RECURSIVE Clauses(_, _)
Clauses(s, i) ==
    IF i > Len(s) THEN {}
    ELSE IF limit_pattern(s, i) # 0
         THEN {i} \cup Clauses(s, limit_pattern(s, i) + 1)
         ELSE Clauses(s, i + 1)

\* the integer of the clause starting at i exceeds m
Exceeds(s, i, m) == greater(int(group1(s, i)), m)

\* the decimal text of the bounds in Limits
Numeral == (20 :> <<"2","0">>) @@ (1000 :> <<"1","0","0","0">>)

LimitText(m) == <<"L","I","M","I","T"," ">> \o Numeral[m]

\* s with exactly the clauses that exceed m rewritten to LIMIT m
RECURSIVE ReplaceExceeding(_, _, _)
ReplaceExceeding(s, i, m) ==
    IF i > Len(s) THEN <<>>
    ELSE IF limit_pattern(s, i) # 0
         THEN (IF Exceeds(s, i, m) THEN LimitText(m)
               ELSE SubSeq(s, i, limit_pattern(s, i)))
              \o ReplaceExceeding(s, limit_pattern(s, i) + 1, m)
         ELSE <<s[i]>> \o ReplaceExceeding(s, i + 1, m)

\* the last character of s that is not whitespace, "" when there is none
RECURSIVE LastNonSpace(_)
LastNonSpace(s) ==
    IF s = <<>> THEN ""
    ELSE IF IsSpace(s[Len(s)]) THEN LastNonSpace(SubSeq(s, 1, Len(s) - 1))
    ELSE s[Len(s)]

----------------------------------------------------------------------------
(* Properties of is_safe_select_sql, under SpecSafe *)

SafeReturned == pc = "is_safe_select_sql"

\* C2: is_safe_select_sql returns false whenever a denylisted keyword occurs
\* in sql as a standalone token under word-boundary containment (delimited by
\* the ends of the text or by any non-identifier character, not only spaces).
C2_StandaloneKeywordRejected ==
    (SafeReturned /\ HasStandaloneKeyword(sql)) => ret = FALSE

\* C3: is_safe_select_sql returns false for every string whose first token,
\* after trimming, collapsing whitespace and upper-casing, is not exactly
\* SELECT (the empty and the whitespace-only string included).
C3_FirstTokenMustBeSelect ==
    (SafeReturned /\ FirstToken(normalize(sql)) # SELECT) => ret = FALSE

\* every occurrence of a denylisted keyword touches an identifier character
OnlyInsideIdentifiers(s) ==
    \A k \in DOMAIN dangerous_keywords :
        \A i \in 1..Len(s) :
            LET kw == dangerous_keywords[k] IN
            OccursAt(kw, s, i) =>
                \/ i > 1 /\ IsWord(s[i - 1])
                \/ i + Len(kw) <= Len(s) /\ IsWord(s[i + Len(kw)])

\* C4: a query that starts with SELECT and in which denylisted keywords occur
\* only inside longer identifiers is accepted.
C4_KeywordInsideIdentifierAccepted ==
    (/\ SafeReturned
     /\ startswith(normalize(sql), SELECT)
     /\ OnlyInsideIdentifiers(sql)) => ret = TRUE

C4_Witness ==
    /\ SafeReturned
    /\ startswith(normalize(sql), SELECT)
    /\ HasKeyword(sql)
    /\ OnlyInsideIdentifiers(sql)
    /\ ret = TRUE

\* C5: every non-empty string whose normalized text starts with SELECT and
\* holds no denylisted keyword as a standalone token is accepted.
C5_SafeQueryAccepted ==
    (/\ SafeReturned
     /\ strip(sql) # <<>>
     /\ startswith(normalize(sql), SELECT)
     /\ ~HasStandaloneKeyword(sql)) => ret = TRUE

C5_Witness ==
    /\ SafeReturned
    /\ startswith(normalize(sql), SELECT)
    /\ ~HasStandaloneKeyword(sql)
    /\ contains(sql, <<"\n">>)
    /\ Len(normalize(sql)) > Len(SELECT)
    /\ ret = TRUE

----------------------------------------------------------------------------
(* Properties of enforce_limit, under SpecLimit *)

LimitReturned == pc = "enforce_limit"

\* C6: the output of enforce_limit(sql, m) contains exactly one LIMIT <integer>
\* clause and its integer is at most m.
C6_ExactlyOneBoundedLimit ==
    LimitReturned =>
        /\ Cardinality(Clauses(ret, 1)) = 1
        /\ \A i \in Clauses(ret, 1) : ~Exceeds(ret, i, max_limit)

\* C7: when the input holds a LIMIT <integer> clause whose integer exceeds m,
\* the output is the input with that clause rewritten to LIMIT m and every
\* other part, clauses within the bound included, unchanged (apart from the
\* trailing-semicolon normalization).
C7_OnlyExceedingClauseReplaced ==
    (/\ LimitReturned
     /\ \E i \in Clauses(sql, 1) : Exceeds(sql, i, max_limit))
    => \E b \in {SubSeq(ret, 1, Len(ret) - 1)} :
          /\ ret = b \o <<";">>
          /\ \E t \in {strip_semicolon(sql)} : b = ReplaceExceeding(t, 1, max_limit)

\* C8: when the input holds no LIMIT <integer> clause, the output is the
\* trimmed input without its trailing ';' followed by " LIMIT m;".
C8_LimitAppended ==
    (LimitReturned /\ Clauses(sql, 1) = {})
    => LET suffix == <<" ">> \o LimitText(max_limit) \o <<";">> IN
       /\ endswith(ret, suffix)
       /\ IsBodyOf(SubSeq(ret, 1, Len(ret) - Len(suffix)), sql)

C8_Witness ==
    /\ LimitReturned
    /\ Clauses(sql, 1) = {}
    /\ contains(sql, <<"x">>)
    /\ endswith(strip(sql), <<";">>)
    /\ endswith(ret, <<"x", " ">> \o LimitText(max_limit) \o <<";">>)

\* re.search finds a clause and its integer is at most max_limit
FoundWithinBound ==
    /\ search(sql, 1) # 0
    /\ ~Exceeds(sql, search(sql, 1), max_limit)

\* C9: when the clause found in the input (the leftmost one) has an integer of
\* at most m, the output is the trimmed input with its trailing ';' removed and
\* one ';' appended: no value changed, no clause added.
C9_WithinBoundUntouched ==
    (LimitReturned /\ FoundWithinBound)
    => /\ ret # <<>>
       /\ ret[Len(ret)] = ";"
       /\ IsBodyOf(SubSeq(ret, 1, Len(ret) - 1), sql)

C9_Witness ==
    /\ LimitReturned
    /\ FoundWithinBound
    /\ endswith(strip(sql), <<";">>)
    /\ \E i \in Clauses(ret, 1) : Exceeds(ret, i, max_limit)

\* C10: the output of enforce_limit ends with exactly one ';': its last
\* character is ';' and the last non-whitespace character before it is not.
C10_SingleTrailingSemicolon ==
    LimitReturned =>
        /\ ret # <<>>
        /\ ret[Len(ret)] = ";"
        /\ LastNonSpace(SubSeq(ret, 1, Len(ret) - 1)) # ";"

\* C11: enforce_limit is idempotent for a fixed bound:
\* enforce_limit(enforce_limit(s, m), m) = enforce_limit(s, m), also for inputs
\* with several LIMIT clauses, several trailing semicolons or no LIMIT at all.
C11_Idempotent ==
    LimitReturned => enforce_limit(ret, max_limit) = ret

\* C26: enforce_limit preserves safety: whenever is_safe_select_sql accepts
\* sql, it accepts enforce_limit(sql, max_limit) too, a word directly
\* followed by the trailing ';' included.
C26_LimitPreservesSafety ==
    (LimitReturned /\ is_safe_select_sql(sql)) => is_safe_select_sql(ret)

----------------------------------------------------------------------------
(* Properties of find_best_fallback, under SpecFallback *)

FallbackReturned == pc = "find_best_fallback"

\* keyword kw, lower-cased, is a substring of the lower-cased question q
KeywordOccurs(kw, q) ==
    \E p \in 1..Len(q) :
        /\ p + Len(kw) - 1 <= Len(q)
        /\ \A d \in 1..Len(kw) : lower(q)[p + d - 1] = lower(kw)[d]

\* the score of catalog entry i for question q
Score(i, q) ==
    Cardinality({ k \in DOMAIN FALLBACK_KEYWORDS[i].keywords :
                    KeywordOccurs(FALLBACK_KEYWORDS[i].keywords[k], q) })

AllScoresZero(q) == \A i \in DOMAIN FALLBACK_KEYWORDS : Score(i, q) = 0

\* the position in FALLBACK_KEYWORDS of the entry with the name returned
Returned(i) == i \in DOMAIN FALLBACK_KEYWORDS /\ FALLBACK_KEYWORDS[i].name = ret[1]

\* C14: for every question, the empty one and those matching no keyword
\* included, find_best_fallback returns a name that is a key of the fallback
\* catalog together with that entry's (trimmed) SQL, and the SQL returned is
\* non-empty and passes is_safe_select_sql.
C14_FallbackIsSafeCatalogEntry ==
    FallbackReturned =>
        /\ \E i \in DOMAIN FALLBACKS :
              /\ ret[1] = FALLBACKS[i].name
              /\ ret[2] = strip(FALLBACKS[i].sql)
        /\ ret[2] # <<>>
        /\ is_safe_select_sql(ret[2])

C14_Witness ==
    /\ FallbackReturned
    /\ ~AllScoresZero(question)
    /\ ret[1] # DefaultFallback
    /\ is_safe_select_sql(ret[2])

\* C15 as stated, for every question: the entry returned scores at least as
\* much as every entry and strictly more than every entry declared before it,
\* and the question of the test selects the month-by-category entry.
C15_StrictlyAboveEveryEarlierEntry ==
    FallbackReturned =>
        /\ \E i \in DOMAIN FALLBACK_KEYWORDS :
              /\ Returned(i)
              /\ \A j \in DOMAIN FALLBACK_KEYWORDS : Score(j, question) <= Score(i, question)
              /\ \A j \in 1..(i - 1) : Score(j, question) < Score(i, question)
        /\ question = TestQuestion => Returned(1)

\* C15: when some keyword occurs in the lower-cased question, the entry
\* returned has the highest count of its keywords occurring in it, and among
\* the entries tied at that maximum it is the one declared first: its score
\* is at least every entry's and strictly above that of every entry declared
\* before it; the question of the test selects the month-by-category entry.
C15_FirstHighestScoreWins ==
    (FallbackReturned /\ ~AllScoresZero(question)) =>
        /\ \E i \in DOMAIN FALLBACK_KEYWORDS :
              /\ Returned(i)
              /\ Score(i, question) > 0
              /\ \A j \in DOMAIN FALLBACK_KEYWORDS : Score(j, question) <= Score(i, question)
              /\ \A j \in 1..(i - 1) : Score(j, question) < Score(i, question)
        /\ question = TestQuestion => Returned(1)

\* a later entry ties with the entry returned at a positive maximum
C15_Witness ==
    /\ FallbackReturned
    /\ \E i, j \in DOMAIN FALLBACK_KEYWORDS :
          /\ Returned(i)
          /\ i < j
          /\ Score(i, question) > 0
          /\ Score(j, question) = Score(i, question)

\* the branch of lines 126-127 is taken
ZeroScorePath(q) ==
    LET r == best_match_from(1, lower(q), NoMatch, 0)
    IN  r[1] = NoMatch \/ r[2] = 0

\* C16: when no keyword of any entry occurs in the lower-cased question,
\* find_best_fallback returns the default entry "全体集計" with its SQL, and
\* the zero-score path is the one taken exactly when every entry scores
\* zero: the default entry returned for any other question is returned as
\* the first entry with the highest, positive, score.
C16_DefaultWhenNothingMatches ==
    FallbackReturned =>
        /\ AllScoresZero(question) =>
              ret = <<DefaultFallback, strip(fallback_sql(DefaultFallback))>>
        /\ ZeroScorePath(question) <=> AllScoresZero(question)
        /\ (ret[1] = DefaultFallback /\ ~AllScoresZero(question)) =>
              \E i \in DOMAIN FALLBACK_KEYWORDS :
                  Returned(i) /\ Score(i, question) > 0

C16_Witness ==
    /\ FallbackReturned
    /\ question # <<>>
    /\ AllScoresZero(question)
    /\ ret[1] = DefaultFallback

FallbackQuestionReturned == pc = "is_fallback_question"

\* C28: is_fallback_question(question) is true exactly when some catalog
\* entry has a positive keyword score for the question, that is exactly when
\* find_best_fallback does not take its zero-score default path.
C28_FallbackQuestionAgrees ==
    FallbackQuestionReturned =>
        /\ ret \in BOOLEAN
        /\ ret = TRUE <=> ~AllScoresZero(question)
        /\ ret = TRUE <=> ~ZeroScorePath(question)

C28_Witness ==
    /\ FallbackQuestionReturned
    /\ question = <<"R","e","g","i","o","n">>
    /\ ret = TRUE
    /\ find_best_fallback(question)[1] # DefaultFallback

----------------------------------------------------------------------------
(* Properties of detect_chart_type, under SpecChart *)

ChartReturned == pc = "detect_chart_type"

NonEmptyTable == df.rows > 0 /\ Len(df.columns) > 0

\* the positions of the numeric columns of the table
NumericColumns == { i \in DOMAIN df.columns : df.columns[i].dtype \in {"int64", "float64"} }

\* the positions of the temporal columns: named month or date in any case,
\* or of a date-like type
TemporalColumns ==
    { i \in DOMAIN df.columns :
        \/ lower(df.columns[i].name) \in {month, date}
        \/ df.columns[i].dtype = "datetime64[ns]" }

\* the positions of the categorical columns that are not temporal
CategoricalColumns ==
    { i \in DOMAIN df.columns : df.columns[i].dtype \in {"object", "category"} }
        \ TemporalColumns

\* C17: for every non-empty table with at least one numeric column and at
\* least one temporal column (named month or date in any case, or of a
\* date-like type), detect_chart_type returns 'line', whatever the other
\* columns are.
C17_TemporalGivesLine ==
    (ChartReturned /\ NonEmptyTable
        /\ \E i \in NumericColumns : \E j \in TemporalColumns : i # j)
        => ret = "line"

\* C18: for every non-empty table with a numeric column, no temporal column
\* and at least one non-temporal categorical column, detect_chart_type
\* returns 'pie' exactly when there is one categorical column and at most 10
\* rows, and 'bar' otherwise.
C18_PieIffOneCategoryFewRows ==
    (ChartReturned /\ NonEmptyTable /\ NumericColumns # {} /\ TemporalColumns = {}
        /\ CategoricalColumns # {})
        => ret = IF Cardinality(CategoricalColumns) = 1 /\ df.rows <= 10
                 THEN "pie" ELSE "bar"

C18_Witness ==
    /\ ChartReturned
    /\ NumericColumns # {}
    /\ TemporalColumns = {}
    /\ Cardinality(CategoricalColumns) = 1
    /\ df.rows = 10
    /\ ret = "pie"

\* C19: for every non-empty table with at least two numeric columns and no
\* categorical and no temporal column, detect_chart_type returns 'scatter'.
C19_TwoNumericGiveScatter ==
    (ChartReturned /\ NonEmptyTable /\ Cardinality(NumericColumns) >= 2
        /\ CategoricalColumns = {} /\ TemporalColumns = {})
        => ret = "scatter"

C19_Witness ==
    /\ ChartReturned
    /\ NonEmptyTable
    /\ Cardinality(NumericColumns) = 2
    /\ Len(df.columns) = 2
    /\ TemporalColumns = {}
    /\ ret = "scatter"

\* C20: detect_chart_type returns one of 'bar', 'line', 'pie', 'scatter',
\* 'none' for every table: 'none' exactly when the table is empty, and the
\* default 'bar' for a non-empty table with no numeric column or with a
\* single numeric column and nothing else.
C20_TotalWithDefaultBar ==
    ChartReturned =>
        /\ ret \in {"bar", "line", "pie", "scatter", "none"}
        /\ ret = "none" <=> ~NonEmptyTable
        /\ (NonEmptyTable /\ NumericColumns = {}) => ret = "bar"
        /\ (NonEmptyTable /\ Cardinality(NumericColumns) = 1 /\ Len(df.columns) = 1)
              => ret = "bar"

C20_Witness ==
    /\ ChartReturned
    /\ NonEmptyTable
    /\ NumericColumns = {}
    /\ TemporalColumns # {}
    /\ CategoricalColumns # {}
    /\ ret = "bar"

----------------------------------------------------------------------------
(* Properties of the chart builders and of display_data_with_chart, under  *)
(* SpecViz                                                                 *)

DisplayReturned == pc = "display_data_with_chart"

\* the positions of the object and category columns, the temporal ones included
ObjectColumns ==
    { i \in DOMAIN df.columns : df.columns[i].dtype \in {"object", "category"} }

\* the positions of the object and category columns named month or date
NamedTimeColumns ==
    { i \in ObjectColumns : lower(df.columns[i].name) \in {month, date} }

\* the columns the builder of the kind requires are not all there
MissingColumns(kind) ==
    \/ kind \in {"bar", "pie"} /\ (ObjectColumns = {} \/ NumericColumns = {})
    \/ kind = "line" /\ (NamedTimeColumns = {} \/ NumericColumns = {})
    \/ kind = "scatter" /\ Cardinality(NumericColumns) < 2

\* the positions in the st calls made of the calls of the given name
Calls(name) == { i \in DOMAIN ret.events : ret.events[i].st = name }

\* C21: for every non-empty table whose detected kind cannot be built because
\* required columns are missing, display_data_with_chart returns having
\* displayed the table first, then no chart, and last the information that a
\* chart of the detected kind could not be created; no builder warning is
\* issued and no figure is kept.
C21_BuildFailureNonFatal ==
    (DisplayReturned /\ NonEmptyTable /\ MissingColumns(detect_chart_type(df))) =>
        /\ ret.fig = NoFigure
        /\ Calls("plotly_chart") = {}
        /\ Calls("warning") = {}
        /\ Calls("dataframe") # {}
        /\ ret.events[Len(ret.events)] = St("info", detect_chart_type(df))
        /\ \A i \in Calls("dataframe") : i < Len(ret.events)

C21_Witness ==
    /\ DisplayReturned
    /\ NonEmptyTable
    /\ NumericColumns # {}
    /\ ObjectColumns = {}
    /\ ret.chart_type = "bar"
    /\ ret.events[Len(ret.events)] = St("info", "bar")

LineChartReturned == pc = "create_line_chart"

\* the least position of a non-empty set of column positions
First(S) == CHOOSE i \in S : \A j \in S : i <= j

\* C25: for a non-empty table, when plotly raises nothing, create_line_chart
\* returns None exactly
\* when no column is named month or date or no column is numeric; otherwise x
\* is the first column named month or date, y the first numeric column, and
\* the series split the first categorical column that is not temporal, if
\* there is one: the series column is never a temporal column.
C25_LineChartColumns ==
    (LineChartReturned /\ NonEmptyTable /\ ret.events = <<>>) =>
        /\ ret.fig = NoFigure <=> (NamedTimeColumns = {} \/ NumericColumns = {})
        /\ ret.fig # NoFigure =>
              /\ ret.fig.x = df.columns[First(NamedTimeColumns)].name
              /\ ret.fig.y = df.columns[First(NumericColumns)].name
              /\ ret.fig.color =
                    IF CategoricalColumns = {} THEN <<>>
                    ELSE <<df.columns[First(CategoricalColumns)].name>>

\* the builder of the detected kind returned None without calling plotly
MissingColumnFailure ==
    /\ ret.chart_type \in {"bar", "line", "pie", "scatter"}
    /\ ret.fig = NoFigure
    /\ Calls("warning") = {}

\* the table reaches the default rule of detect_chart_type
DefaultRule ==
    \/ NumericColumns = {}
    \/ Cardinality(NumericColumns) = 1 /\ ObjectColumns = {}

\* C27: for every non-empty table, when detect_chart_type returns 'line',
\* 'pie' or 'scatter' the builder of that kind finds the columns it requires
\* and does not return None for missing columns; a missing-column failure in
\* auto_chart occurs only for 'bar' reached through the default rule.
C27_DetectionAndBuildingAgree ==
    (DisplayReturned /\ NonEmptyTable) =>
        /\ ret.chart_type \in {"line", "pie", "scatter"} =>
              /\ ~MissingColumns(ret.chart_type)
              /\ ~MissingColumnFailure
        /\ MissingColumnFailure => (ret.chart_type = "bar" /\ DefaultRule)

C27_Witness ==
    /\ DisplayReturned
    /\ NonEmptyTable
    /\ ret.chart_type = "line"
    /\ ret.fig.kind = "line"
    /\ ret.fig.x = <<"D","a","t","e">>
    /\ Calls("plotly_chart") # {}

----------------------------------------------------------------------------
(* Properties of process_user_question, under Spec *)

\* C1: every SQL string handed to query_df is vetted: its trimmed, upper-cased
\* text starts with SELECT, it holds no denylisted keyword as a standalone
\* word, and is_safe_select_sql returns true on the exact string executed.
C1_ExecutedIsVetted ==
    \A i \in DOMAIN executed :
        /\ startswith(upper(strip(executed[i])), SELECT)
        /\ ~HasStandaloneKeyword(executed[i])
        /\ is_safe_select_sql(executed[i])

\* the model call returned a message whose fence-stripped content passes
\* is_safe_select_sql
GenerationSucceeded ==
    /\ response.kind = "content"
    /\ is_safe_select_sql(generate_sql(response.content))

\* C12: process_sql_query never raises: for every outcome of the model call
\* control returns to the caller, with exactly ("", False) on every failure
\* (no client, exception, empty or unsafe response) and with flag True only
\* when the call succeeded and the fence-stripped response is safe; the
\* except branch of the caller is never entered from the generation step.
C12_FailureReturnsEmptyFalse ==
    /\ pc = "generated" =>
          /\ is_generated \in BOOLEAN
          /\ ~GenerationSucceeded => (sql = <<>> /\ is_generated = FALSE)
          /\ is_generated = TRUE => GenerationSucceeded
    /\ pc = "except" => executed # <<>>

C12_Witness ==
    /\ pc = "generated"
    /\ response.kind = "content"
    /\ startswith(generate_sql(response.content), SELECT)
    /\ ~is_safe_select_sql(generate_sql(response.content))
    /\ sql = <<>>
    /\ is_generated = FALSE

Rank(p) ==
    CASE p = "start" -> 0
      [] p = "generated" -> 1
      [] p = "chosen" -> 2
      [] p = "display" -> 3
      [] p = "except" -> 4
      [] p = "done" -> 5

\* C22: handling one question is bounded and loop-free: every step moves
\* forward in the control flow, the outcome of the language-model call is
\* never replaced by a second call, query_df is invoked at most twice (the
\* chosen query, then at most the last-resort fallback), and a query that
\* returned nothing ends the request: neither it nor the fallback is retried.
C22_BoundedLoopFree ==
    /\ [](/\ Len(executed) <= 2
          /\ ret = "empty" => pc = "done"
          /\ Len(executed) = 2 => pc = "done")
    /\ [][/\ Rank(pc') > Rank(pc)
          /\ response # NoOutcome => response' = response
          /\ Len(executed') <= Len(executed) + 1]_vars

C22_Witness ==
    /\ pc = "done"
    /\ Len(executed) = 2
    /\ ret = "empty"

----------------------------------------------------------------------------
(* Properties of init_db under concurrent sessions, under SpecDb *)

\* the values of init_db a session has in hand
Observed(s) ==
    IF db.sess[s].pc = "assign" THEN {db.sess[s].result}
    ELSE IF db.sess[s].pc = "done" THEN {db.sess[s].result, db.sess[s].db_connection}
    ELSE {db.sess[s].db_connection}

\* C23: under every interleaving of the sessions the CSV is read, a
\* connection is created and the sales table is created at most once in the
\* process; every caller of init_db is handed the one value kept for the
\* process, and a connection in the hands of a session has its sales table.
C23_InitializedAtMostOnce ==
    pc = "sessions" =>
        /\ db.reads <= 1
        /\ Len(db.cons) <= 1
        /\ \A s \in Sessions :
              /\ db.sess[s].pc \in {"assign", "done"} =>
                    db.cache = <<db.sess[s].result>>
              /\ \A v \in Observed(s) :
                    v.kind = "con" => (db.cache = <<v>> /\ db.cons[v.id] = "ready")

\* a session holds the connection while another, which missed the cache
\* before the value was stored, looks it up again under the lock
C23_Witness ==
    /\ pc = "sessions"
    /\ \E s, t \in Sessions :
          /\ s # t
          /\ db.sess[s].pc = "done"
          /\ db.sess[s].db_connection.kind = "con"
          /\ db.sess[t].pc = "cache_reread"
          /\ db.reads = 1

----------------------------------------------------------------------------
(* Properties of generate_sql, under SpecGenerate *)

GenerateReturned == pc = "generate_sql"

\* the text holds a fence marker
HasFence(s) == \E i \in 1..(Len(s) - 2) : SubSeq(s, i, i + 2) = Fence

\* what stands between the opening and the closing fence of the trimmed
\* text t, the language tag set aside
Inner(t) ==
    LET body == SubSeq(t, 4, Len(t) - 3) IN
    IF Len(body) >= 3 /\ SubSeq(body, 1, 3) = <<"s","q","l">>
       /\ (Len(body) = 3 \/ IsSpace(body[4]))
    THEN SubSeq(body, 4, Len(body))
    ELSE body

\* the content is one block of text wrapped in an opening and a closing fence
Fenced(c) ==
    LET t == strip(c) IN
    /\ Len(t) >= 6
    /\ SubSeq(t, 1, 3) = Fence
    /\ SubSeq(t, Len(t) - 2, Len(t)) = Fence
    /\ ~HasFence(Inner(t))

\* C24: for every message content that begins with a code fence (with or
\* without the sql tag) and ends with a closing fence, on lines of their own
\* or on the line of the SQL, generate_sql returns exactly the SQL text
\* between the fences: it holds no fence marker and is non-empty whenever the
\* fenced SQL is.
C24_FencesStripped ==
    (GenerateReturned /\ Fenced(response.content)) =>
        /\ ret = strip(Inner(strip(response.content)))
        /\ ~HasFence(ret)
        /\ strip(Inner(strip(response.content))) # <<>> => ret # <<>>

====
